---- MODULE Spec2Model ----
(***************************************************************************)
(* Exchange Calc (src/src/App.tsx): the InputField component (raw value    *)
(* held by the parent, displayValue held by the field, the [value] effect, *)
(* handleChange, handleBlur), the four derived results of                  *)
(* CurrencyConverterApp and formatNumber.                                  *)
(*                                                                         *)
(* Text is a sequence of one-character strings.  A number is a record      *)
(* [kind, n, d]: "nan", "inf", or the finite non-negative rational n/d in  *)
(* lowest terms (no '-' survives the field's character filter, so no       *)
(* negative number is ever parsed).  Within the bounds below every parsed  *)
(* decimal has at most 9 significant digits, where IEEE doubles compare    *)
(* and round-trip exactly like the decimals they come from.  A quotient or *)
(* product is held exactly where the double is the nearest double: they    *)
(* agree on being zero, NaN or infinite, and on the digits shown except at *)
(* an exact rounding tie.                                                  *)
(***************************************************************************)
EXTENDS Naturals, Sequences, FiniteSets

\* ---------------------------------------------------------------- bounds

\* Longest text of an edit event in Spec and SpecEdit.
MaxLen == 5
\* Most keystrokes in SpecTyping.
MaxTyped == 6
\* Longest amount of a card's field in SpecCalc.
MaxCalcLen == 3

\* The digits the bounded inputs are drawn from ('9' makes rounding carry).
Digits == {"0", "9"}
\* Representative of the characters outside [0-9.]; ',' is the one the
\* field's own display text contains.
OtherChars == {","}
Keys == Digits \cup {"."}
Alphabet == Keys \cup OtherChars

RECURSIVE TextsOfLen(_, _)
TextsOfLen(chars, k) ==
    IF k = 0 THEN {<<>>}
    ELSE {Append(t, c) : t \in TextsOfLen(chars, k - 1), c \in chars}

RECURSIVE TextsUpTo(_, _)
TextsUpTo(chars, k) ==
    IF k = 0 THEN {<<>>}
    ELSE TextsUpTo(chars, k - 1) \cup TextsOfLen(chars, k)

\* ------------------------------------------------------------- characters

DigitChars == <<"0", "1", "2", "3", "4", "5", "6", "7", "8", "9">>
DigitSet == {DigitChars[i] : i \in 1..10}
DigitVal(c) == (CHOOSE i \in 1..10 : DigitChars[i] = c) - 1

\* The complement of the class [^0-9.] of handleChange's replace.
AllowedChars == DigitSet \cup {"."}

\* Number.prototype.toLocaleString's texts for the two non-finite numbers;
\* InfinitySign stands for the one glyph U+221E.
InfinitySign == "INF"
NaNText == <<"N", "a", "N">>

\* Intl.NumberFormat's defaults for toLocaleString('en-US') with no options.
DefaultMinFractionDigits == 0
DefaultMaxFractionDigits == 3

\* ---------------------------------------------------------------- numbers

RECURSIVE GCD(_, _)
GCD(a, b) == IF b = 0 THEN a ELSE GCD(b, a % b)

NaN == [kind |-> "nan", n |-> 0, d |-> 1]
Infinity == [kind |-> "inf", n |-> 0, d |-> 1]
Fin(n, d) == LET g == GCD(n, d) IN [kind |-> "fin", n |-> n \div g, d |-> d \div g]
Zero == Fin(0, 1)

isNaN(x) == x.kind = "nan"

RECURSIVE Pow10(_)
Pow10(k) == IF k = 0 THEN 1 ELSE 10 * Pow10(k - 1)

RECURSIVE DigitsToNat(_)
DigitsToNat(ds) ==
    IF ds = <<>> THEN 0
    ELSE 10 * DigitsToNat(SubSeq(ds, 1, Len(ds) - 1)) + DigitVal(ds[Len(ds)])

RECURSIVE NatToDigits(_)
NatToDigits(n) ==
    IF n < 10 THEN <<DigitChars[n + 1]>>
    ELSE Append(NatToDigits(n \div 10), DigitChars[(n % 10) + 1])

\* The longest prefix of s made of digits.
RECURSIVE DigitPrefix(_)
DigitPrefix(s) ==
    IF s = <<>> \/ Head(s) \notin DigitSet THEN <<>>
    ELSE <<Head(s)>> \o DigitPrefix(Tail(s))

\* parseFloat: the longest prefix that is a decimal literal (digits, an
\* optional '.', digits; at least one digit), NaN when there is none.
\* The model's texts hold no sign, exponent or white space.
parseFloat(s) ==
    LET int  == DigitPrefix(s)
        rest == SubSeq(s, Len(int) + 1, Len(s))
        frac == IF rest # <<>> /\ Head(rest) = "." THEN DigitPrefix(Tail(rest)) ELSE <<>>
    IN  IF int = <<>> /\ frac = <<>> THEN NaN
        ELSE Fin(DigitsToNat(int \o frac), Pow10(Len(frac)))

\* x / y and x * y of two parsed (finite or NaN) numbers, as IEEE does them.
Divide(x, y) ==
    IF isNaN(x) \/ isNaN(y) THEN NaN
    ELSE IF y.n = 0 THEN (IF x.n = 0 THEN NaN ELSE Infinity)
    ELSE Fin(x.n * y.d, x.d * y.n)

Multiply(x, y) ==
    IF isNaN(x) \/ isNaN(y) THEN NaN
    ELSE Fin(x.n * y.n, x.d * y.d)

\* ------------------------------------------------------- toLocaleString

\* k steps of long division of r/d (r < d): the first k fraction digits as
\* a number q, and the remainder.
RECURSIVE LongDiv(_, _, _)
LongDiv(r, d, k) ==
    IF k = 0 THEN [q |-> 0, r |-> r]
    ELSE LET p == LongDiv(r, d, k - 1)
         IN  [q |-> p.q * 10 + ((p.r * 10) \div d), r |-> (p.r * 10) % d]

\* x rounded to k fraction digits, ties away from zero (ECMA-402's default
\* roundingMode "halfExpand"): the integer part and the fraction scaled by 10^k.
RoundTo(x, k) ==
    LET ip == x.n \div x.d
        p  == LongDiv(x.n % x.d, x.d, k)
        fs == IF (p.r * 10) \div x.d >= 5 THEN p.q + 1 ELSE p.q
    IN  IF fs = Pow10(k) THEN [ip |-> ip + 1, fs |-> 0] ELSE [ip |-> ip, fs |-> fs]

RECURSIVE GroupDigits(_)
GroupDigits(ds) ==
    IF Len(ds) <= 3 THEN ds
    ELSE GroupDigits(SubSeq(ds, 1, Len(ds) - 3)) \o <<",">>
         \o SubSeq(ds, Len(ds) - 2, Len(ds))

RECURSIVE PadLeft(_, _)
PadLeft(ds, k) == IF Len(ds) >= k THEN ds ELSE PadLeft(<<"0">> \o ds, k)

RECURSIVE TrimZeros(_, _)
TrimZeros(ds, min) ==
    IF Len(ds) > min /\ ds[Len(ds)] = "0" THEN TrimZeros(SubSeq(ds, 1, Len(ds) - 1), min)
    ELSE ds

\* num.toLocaleString('en-US', {minimumFractionDigits, maximumFractionDigits}):
\* rounded to maxFD fraction digits, trailing zeros dropped down to minFD,
\* the integer part grouped by three with ','.
toLocaleString(x, minFD, maxFD) ==
    IF x.kind = "nan" THEN NaNText
    ELSE IF x.kind = "inf" THEN <<InfinitySign>>
    ELSE LET r    == RoundTo(x, maxFD)
             frac == IF maxFD = 0 THEN <<>>
                     ELSE TrimZeros(PadLeft(NatToDigits(r.fs), maxFD), minFD)
         IN  GroupDigits(NatToDigits(r.ip))
             \o (IF frac = <<>> THEN <<>> ELSE <<".">> \o frac)

\* num.toLocaleString('en-US') as InputField calls it.
Grouped(x) == toLocaleString(x, DefaultMinFractionDigits, DefaultMaxFractionDigits)

\* ------------------------------------------------------------ InputField

VARIABLES
    value,          \* the value prop: the parent's state string of the field
    displayValue,   \* the field's own useState
    effectPending,  \* the [value] effect is scheduled (mount, or value changed)
    last,           \* the handler, or effect branch, that ran last
    emitted,        \* the onChange calls of the handler that ran last
    input,          \* SpecEdit: e.target.value of the edit events
    typed,          \* SpecTyping: the keys pressed so far
    amounts,        \* SpecCalc: CurrencyConverterApp's eight state strings
    rendered,       \* SpecCalc: the page has rendered from amounts
    results,        \* SpecCalc: the four derived numbers of that render
    shown           \* SpecCalc: the four ResultDisplay texts of that render

fieldVars == <<value, displayValue, effectPending, last, emitted>>
calcVars == <<amounts, rendered, results, shown>>
vars == <<value, displayValue, effectPending, last, emitted, input, typed,
          amounts, rendered, results, shown>>

\* input.replace(/[^0-9.]/g, '')
StripDisallowed(s) == SelectSeq(s, LAMBDA c : c \in AllowedChars)

\* s.indexOf('.', i) counted from 1, 0 when there is none.
RECURSIVE IndexOfDot(_, _)
IndexOfDot(s, i) ==
    IF i > Len(s) THEN 0 ELSE IF s[i] = "." THEN i ELSE IndexOfDot(s, i + 1)

\* s.split('.')
RECURSIVE SplitDot(_)
SplitDot(s) ==
    LET i == IndexOfDot(s, 1)
    IN  IF i = 0 THEN <<s>>
        ELSE <<SubSeq(s, 1, i - 1)>> \o SplitDot(SubSeq(s, i + 1, Len(s)))

\* parts.join('')
RECURSIVE Join(_)
Join(parts) == IF parts = <<>> THEN <<>> ELSE Head(parts) \o Join(Tail(parts))

\* A plausible slip: the extra decimal points are not collapsed.
SanitizeNoCollapse(text) == StripDisallowed(text)

\* A plausible slip: the first group is dropped when collapsing.
SanitizeDropFirst(text) ==
    LET cleanedValue == StripDisallowed(text)
        parts == SplitDot(cleanedValue)
    IN  IF Len(parts) > 2 THEN <<".">> \o Join(Tail(parts)) ELSE cleanedValue

\* handleChange's cleanedValue.
Sanitize(text) ==
    LET cleanedValue == StripDisallowed(text)
        parts == SplitDot(cleanedValue)
    IN  IF Len(parts) > 2 THEN parts[1] \o <<".">> \o Join(Tail(parts))
        ELSE cleanedValue

endsWithDot(s) == s # <<>> /\ s[Len(s)] = "."

\* A plausible slip: the trailing '.' is not put back.
SyncDisplayNoDot(v) ==
    IF v = <<>> THEN <<>>
    ELSE LET num == parseFloat(v)
         IN  IF ~isNaN(num) THEN Grouped(num) ELSE v

\* The displayValue the [value] effect sets.
SyncDisplay(v) ==
    IF v = <<>> THEN <<>>
    ELSE LET num == parseFloat(v)
         IN  IF endsWithDot(v) /\ ~isNaN(num) THEN Grouped(num) \o <<".">>
             ELSE IF ~isNaN(num) THEN Grouped(num)
             ELSE v

\* The branch of the effect that runs for v.
EffectBranch(v) ==
    IF v = <<>> THEN "effect:empty"
    ELSE LET num == parseFloat(v)
         IN  IF endsWithDot(v) /\ ~isNaN(num) THEN "effect:dot"
             ELSE IF ~isNaN(num) THEN "effect:num"
             ELSE "effect:verbatim"

\* A plausible slip: blur formats like the effect and keeps the trailing '.'.
BlurDisplayKeepDot(v) == SyncDisplay(v)

\* The displayValue handleBlur sets for a value that parses.
BlurDisplay(v) == Grouped(parseFloat(v))

FieldInit ==
    /\ value = <<>>
    /\ displayValue = <<>>
    /\ effectPending = TRUE
    /\ last = "construct"
    /\ emitted = <<>>

\* useEffect(..., [value]): runs after the render that mounted the field or
\* changed value, before the next event is handled.
RunEffect ==
    /\ effectPending
    /\ displayValue' = SyncDisplay(value)
    /\ effectPending' = FALSE
    /\ last' = EffectBranch(value)
    /\ UNCHANGED <<value, emitted>>

\* handleChange for an edit event whose e.target.value is text.  The parent's
\* setter stores the new value; the effect is scheduled only if it differs.
HandleChange(text) ==
    /\ ~effectPending
    /\ displayValue' = Sanitize(text)
    /\ value' = displayValue'
    /\ emitted' = <<value'>>
    /\ effectPending' = (value' # value)
    /\ last' = "change"

HandleBlur ==
    /\ ~effectPending
    /\ IF value # <<>>
       THEN IF ~isNaN(parseFloat(value))
            THEN /\ displayValue' = BlurDisplay(value)
                 /\ last' = "blur:num"
                 /\ emitted' = <<>>
                 /\ UNCHANGED <<value, effectPending>>
            ELSE /\ displayValue' = <<>>
                 /\ value' = <<>>
                 /\ emitted' = << <<>> >>
                 /\ effectPending' = TRUE
                 /\ last' = "blur:clear"
       ELSE /\ displayValue' = <<>>
            /\ last' = "blur:empty"
            /\ emitted' = <<>>
            /\ UNCHANGED <<value, effectPending>>

\* ------------------------------------------------- Spec: one InputField

\* The page before any result is looked at (the cards' variables rest in
\* every specification but SpecCalc).
Fields == {"pkrAmount1", "rate1", "phpAmount1", "rate2",
           "pkrAmount2", "phpAmount2", "usdPkrRate", "usdPhpRate"}
Cards == {"pkrToPhpResult", "phpToPkrResult", "directPkrPhpRate", "crossUsdRate"}

CalcIdle ==
    /\ rendered = FALSE
    /\ results = [c \in Cards |-> Zero]
    /\ shown = [c \in Cards |-> <<>>]

EventTexts == TextsUpTo(Alphabet, MaxLen)

Init ==
    /\ FieldInit
    /\ input = <<>>
    /\ typed = <<>>
    /\ amounts = [f \in Fields |-> <<>>]
    /\ CalcIdle

Effect == RunEffect /\ UNCHANGED <<input, typed, calcVars>>
Change == \E text \in EventTexts : HandleChange(text) /\ UNCHANGED <<input, typed, calcVars>>
Blur == HandleBlur /\ UNCHANGED <<input, typed, calcVars>>

\* Any sequence of edit events with arbitrary text and blur events on a field.
Next == Effect \/ Change \/ Blur

Spec == Init /\ [][Next]_vars

\* ------------------------------- SpecEdit: the edit events carry one text

InitEdit ==
    /\ FieldInit
    /\ input \in EventTexts
    /\ typed = <<>>
    /\ amounts = [f \in Fields |-> <<>>]
    /\ CalcIdle

ChangeInput == HandleChange(input) /\ UNCHANGED <<input, typed, calcVars>>

NextEdit == Effect \/ ChangeInput \/ Blur

SpecEdit == InitEdit /\ [][NextEdit]_vars

\* ------------------------ SpecTyping: keys typed at the end of the field

\* One key pressed with the caret at the end of the <input>, whose content
\* is displayValue: the edit event's text is displayValue followed by the key.
TypeKey ==
    \E c \in Keys :
        /\ Len(typed) < MaxTyped
        /\ c = "." => \A i \in 1..Len(typed) : typed[i] # "."
        /\ HandleChange(Append(displayValue, c))
        /\ typed' = Append(typed, c)
        /\ UNCHANGED <<input, calcVars>>

NextTyping == Effect \/ TypeKey

SpecTyping == Init /\ [][NextTyping]_vars

\* ------------------------------------------- SpecCalc: the four results

\* A JavaScript string is truthy when it is not empty.
truthy(s) == s # <<>>

\* A plausible slip: the guard forgets the isNaN tests.
pkrToPhpResultNoNaNTest(pkrAmount1, rate1) ==
    IF truthy(rate1) /\ truthy(pkrAmount1)
    THEN Divide(parseFloat(pkrAmount1), parseFloat(rate1))
    ELSE Zero

\* A plausible slip: a zero divisor is caught and answered with 0.
pkrToPhpResultZeroGuard(pkrAmount1, rate1) ==
    IF truthy(rate1) /\ truthy(pkrAmount1)
       /\ ~isNaN(parseFloat(pkrAmount1)) /\ ~isNaN(parseFloat(rate1))
       /\ parseFloat(rate1) # Zero
    THEN Divide(parseFloat(pkrAmount1), parseFloat(rate1))
    ELSE Zero

pkrToPhpResult(pkrAmount1, rate1) ==
    IF truthy(rate1) /\ truthy(pkrAmount1)
       /\ ~isNaN(parseFloat(pkrAmount1)) /\ ~isNaN(parseFloat(rate1))
    THEN Divide(parseFloat(pkrAmount1), parseFloat(rate1))
    ELSE Zero

phpToPkrResult(phpAmount1, rate2) ==
    IF truthy(rate2) /\ truthy(phpAmount1)
       /\ ~isNaN(parseFloat(phpAmount1)) /\ ~isNaN(parseFloat(rate2))
    THEN Multiply(parseFloat(phpAmount1), parseFloat(rate2))
    ELSE Zero

directPkrPhpRate(pkrAmount2, phpAmount2) ==
    IF truthy(phpAmount2) /\ truthy(pkrAmount2)
       /\ ~isNaN(parseFloat(pkrAmount2)) /\ ~isNaN(parseFloat(phpAmount2))
    THEN Divide(parseFloat(pkrAmount2), parseFloat(phpAmount2))
    ELSE Zero

crossUsdRate(usdPkrRate, usdPhpRate) ==
    IF truthy(usdPhpRate) /\ truthy(usdPkrRate)
       /\ ~isNaN(parseFloat(usdPkrRate)) /\ ~isNaN(parseFloat(usdPhpRate))
    THEN Divide(parseFloat(usdPkrRate), parseFloat(usdPhpRate))
    ELSE Zero

\* '0'.repeat(k)
RECURSIVE Zeros(_)
Zeros(k) == IF k = 0 THEN <<>> ELSE <<"0">> \o Zeros(k - 1)

formatNumber(num, decimals) ==
    IF isNaN(num) \/ num = Zero THEN <<"0", ".">> \o Zeros(decimals)
    ELSE toLocaleString(num, decimals, decimals)

\* The two state strings each card reads, first and second operand, and the
\* decimals prop of its ResultDisplay.
Operands == [pkrToPhpResult   |-> <<"pkrAmount1", "rate1">>,
             phpToPkrResult   |-> <<"phpAmount1", "rate2">>,
             directPkrPhpRate |-> <<"pkrAmount2", "phpAmount2">>,
             crossUsdRate     |-> <<"usdPkrRate", "usdPhpRate">>]
Decimals == [pkrToPhpResult |-> 0, phpToPkrResult |-> 0,
             directPkrPhpRate |-> 2, crossUsdRate |-> 2]

\* The strings a field can hand to its parent: handleChange's outputs.
RawAmounts == {Sanitize(t) : t \in TextsUpTo(Alphabet, MaxCalcLen)}

\* The page after edits to the two fields of one card, before it renders.
InitCalc ==
    /\ FieldInit
    /\ input = <<>>
    /\ typed = <<>>
    /\ \E c \in Cards : \E a \in RawAmounts : \E b \in RawAmounts :
           amounts = [f \in Fields |-> IF f = Operands[c][1] THEN a
                                       ELSE IF f = Operands[c][2] THEN b
                                       ELSE <<>>]
    /\ CalcIdle

\* One render of CurrencyConverterApp: the four results are computed from the
\* state strings and each ResultDisplay shows formatNumber(value, decimals).
Render ==
    /\ ~rendered
    /\ rendered' = TRUE
    /\ results' = [pkrToPhpResult   |-> pkrToPhpResult(amounts.pkrAmount1, amounts.rate1),
                   phpToPkrResult   |-> phpToPkrResult(amounts.phpAmount1, amounts.rate2),
                   directPkrPhpRate |-> directPkrPhpRate(amounts.pkrAmount2, amounts.phpAmount2),
                   crossUsdRate     |-> crossUsdRate(amounts.usdPkrRate, amounts.usdPhpRate)]
    /\ shown' = [c \in Cards |-> formatNumber(results'[c], Decimals[c])]
    /\ UNCHANGED <<fieldVars, input, typed, amounts>>

NextCalc == Render

SpecCalc == InitCalc /\ [][NextCalc]_vars

\* ----------------------------------------------------------------- claims

EffectBranches == {"effect:empty", "effect:dot", "effect:num", "effect:verbatim"}
BlurBranches == {"blur:num", "blur:clear", "blur:empty"}

Operand1(c) == amounts[Operands[c][1]]
Operand2(c) == amounts[Operands[c][2]]
Arithmetic(c, x, y) == IF c = "phpToPkrResult" THEN Multiply(x, y) ELSE Divide(x, y)

\* C1: for each of the four formulas, the result is exactly 0 when either
\* operand is empty or fails to parse; otherwise, and only then, it is the
\* formula's arithmetic on the two parsed numbers.
C1_GuardYieldsZero ==
    rendered =>
        \A c \in Cards :
            IF \/ Operand1(c) = <<>> \/ Operand2(c) = <<>>
               \/ isNaN(parseFloat(Operand1(c))) \/ isNaN(parseFloat(Operand2(c)))
            THEN results[c] = Zero
            ELSE results[c] = Arithmetic(c, parseFloat(Operand1(c)), parseFloat(Operand2(c)))

\* C1's case: "." (non-empty, not a number) over "9" gives 0.
C1_Witness ==
    /\ rendered
    /\ amounts.pkrAmount1 = <<".">>
    /\ amounts.rate1 = <<"9">>
    /\ results.pkrToPhpResult = Zero

\* The text with the characters outside [0-9.] and every '.' after the first
\* deleted, in one pass.
RECURSIVE KeepFirstDot(_, _)
KeepFirstDot(s, seenDot) ==
    IF s = <<>> THEN <<>>
    ELSE IF Head(s) \in DigitSet THEN <<Head(s)>> \o KeepFirstDot(Tail(s), seenDot)
    ELSE IF Head(s) = "." /\ ~seenDot THEN <<".">> \o KeepFirstDot(Tail(s), TRUE)
    ELSE KeepFirstDot(Tail(s), seenDot)

OnlyDigits(s) == SelectSeq(s, LAMBDA c : c \in DigitSet)
DotCount(s) == Len(SelectSeq(s, LAMBDA c : c = "."))

\* C2: the RawAmount an edit event emits is its text with every character
\* outside [0-9.] and every '.' after the first deleted: only digits and at
\* most one '.', the text's digits in their order, and the '.' where the
\* text's first '.' sat among the digits.
C2_SanitizedEmission ==
    last = "change" =>
        /\ emitted = <<KeepFirstDot(input, FALSE)>>
        /\ \A i \in 1..Len(emitted[1]) : emitted[1][i] \in DigitSet \cup {"."}
        /\ DotCount(emitted[1]) <= 1
        /\ OnlyDigits(emitted[1]) = OnlyDigits(input)
        /\ value = emitted[1]

\* C2's case: a text with two '.' has been edited in.
C2_Witness ==
    /\ last = "change"
    /\ input = <<"9", ".", "0", ".", "9">>
    /\ emitted = << <<"9", ".", "0", "9">> >>

\* The grouped text the synchronisation rule prescribes for v.
SyncRule(v) ==
    IF v = <<>> THEN <<>>
    ELSE IF isNaN(parseFloat(v)) THEN v
    ELSE IF v[Len(v)] = "." THEN Append(Grouped(parseFloat(v)), ".")
    ELSE Grouped(parseFloat(v))

\* C3: every change of RawAmount schedules the synchronisation effect, and
\* once it has run DisplayText is empty for an empty RawAmount, RawAmount
\* verbatim if it does not parse, the grouped number followed by '.' if it
\* ends with '.', and the grouped number otherwise.
C3_SyncAfterChange ==
    /\ [](last \in EffectBranches => displayValue = SyncRule(value))
    /\ [][value' # value => effectPending']_vars

\* C3's case: the effect has run for "9000.".
C3_Witness ==
    /\ last = "effect:dot"
    /\ value = <<"9", "0", "0", "0", ".">>
    /\ displayValue = <<"9", ",", "0", "0", "0", ".">>

\* C4: a blur on a non-empty RawAmount that parses leaves RawAmount unchanged,
\* calls onChange not at all, and sets DisplayText to the grouped number
\* without a trailing '.'; a blur on an empty RawAmount leaves both empty.
C4_BlurFrame ==
    [][last' \in BlurBranches =>
         /\ (value # <<>> /\ ~isNaN(parseFloat(value))) =>
                /\ value' = value
                /\ emitted' = <<>>
                /\ displayValue' = Grouped(parseFloat(value))
                /\ displayValue'[Len(displayValue')] # "."
         /\ value = <<>> =>
                /\ value' = <<>>
                /\ emitted' = <<>>
                /\ displayValue' = <<>>]_vars

\* C4's case: a blur has happened on "9000.".
C4_Witness ==
    /\ last = "blur:num"
    /\ value = <<"9", "0", "0", "0", ".">>
    /\ displayValue = <<"9", ",", "0", "0", "0">>

RemoveSeparators(s) == SelectSeq(s, LAMBDA c : c # ",")

\* C5: for a non-empty RawAmount that parses, the DisplayText the effect or a
\* blur produced, with its separators removed and parsed again, is the same
\* number.
C5_RoundTrip ==
    (/\ last \in EffectBranches \cup {"blur:num"}
     /\ value # <<>>
     /\ ~isNaN(parseFloat(value)))
        => parseFloat(RemoveSeparators(displayValue)) = parseFloat(value)

\* C6: a result that is 0 because an operand is missing is shown by a panel
\* with decimals = 0 as exactly "0".
C6_ZeroShownAsBareZero ==
    rendered =>
        \A c \in Cards :
            (Decimals[c] = 0 /\ (Operand1(c) = <<>> \/ Operand2(c) = <<>>))
                => shown[c] = <<"0">>

\* C7 as stated: no RawAmount is non-empty and unparsable, and neither the
\* verbatim branch of the effect nor the clearing branch of blur ever runs.
C7_InvalidUnreachable ==
    /\ value = <<>> \/ ~isNaN(parseFloat(value))
    /\ last \notin {"effect:verbatim", "blur:clear"}

\* C7 as amended: the only non-empty RawAmount that fails to parse is ".",
\* and the verbatim branch of the effect and the clearing branch of blur run
\* only for it.
C7_OnlyDotInvalid ==
    /\ [](value = <<>> \/ ~isNaN(parseFloat(value)) \/ value = <<".">>)
    /\ [][/\ last' = "effect:verbatim" => value = <<".">>
          /\ last' = "blur:clear" => value = <<".">>]_vars

\* C7's case: "." is the RawAmount and the effect has mirrored it.
C7_Witness ==
    /\ value = <<".">>
    /\ last = "effect:verbatim"
    /\ displayValue = <<".">>

\* C8: in the three division formulas, with both operands parsed and the
\* divisor zero, the result is infinity for a non-zero dividend and NaN for a
\* zero one, never 0; NaN is shown as the panel shows zero ("0.00" for
\* decimals = 2) and infinity as toLocaleString renders it.
C8_DivisionByZero ==
    rendered =>
        \A c \in Cards \ {"phpToPkrResult"} :
            (/\ Operand1(c) # <<>> /\ Operand2(c) # <<>>
             /\ ~isNaN(parseFloat(Operand1(c)))
             /\ parseFloat(Operand2(c)) = Zero)
                => /\ results[c] # Zero
                   /\ IF parseFloat(Operand1(c)) = Zero
                      THEN /\ results[c] = NaN
                           /\ shown[c] = formatNumber(Zero, Decimals[c])
                           /\ Decimals[c] = 2 => shown[c] = <<"0", ".", "0", "0">>
                      ELSE /\ results[c] = Infinity
                           /\ shown[c] = <<InfinitySign>>

\* C8's case: "9" over "0.0".
C8_Witness ==
    /\ rendered
    /\ amounts.pkrAmount2 = <<"9">>
    /\ amounts.phpAmount2 = <<"0", ".", "0">>
    /\ results.directPkrPhpRate = Infinity
    /\ shown.directPkrPhpRate = <<InfinitySign>>

\* C9: after the keys of s have been typed one by one at the end of the
\* field, the effect run after each, RawAmount is s.
C9_TypingFidelity == ~effectPending => value = typed

\* C10: with no effect pending, DisplayText is the synchronisation rule's
\* text for RawAmount or the blur text for it (the grouped number).
C10_DisplayConsistent ==
    ~effectPending =>
        \/ displayValue = SyncRule(value)
        \/ /\ value # <<>>
           /\ ~isNaN(parseFloat(value))
           /\ displayValue = Grouped(parseFloat(value))

====
